---------------------------- MODULE Spec2Model ----------------------------
(***************************************************************************)
(* Inter-bank settlement of ove-bank-api: the Account ledger methods       *)
(* (account.model.js), the Transaction record (transaction.model.js), the  *)
(* signature helpers and the three POST handlers of transaction.routes.js  *)
(* (/internal, /external, /incoming).                                      *)
(*                                                                         *)
(* Every handler is an async function: the code between two awaits runs    *)
(* without interruption, and each await of a storage or network call is a  *)
(* point where other handlers run.  One action of the model is one such    *)
(* call taking effect together with the synchronous code that follows it   *)
(* up to the next call.  A mongoose document is a private copy: save()     *)
(* writes the copy's modified fields over the stored ones.                 *)
(*                                                                         *)
(* Amounts and balances are counted in hundredths (0.01 is 1).             *)
(***************************************************************************)
EXTENDS Integers, FiniteSets, Sequences, TLC

\* ------------------------------------------------------------- bounds
\* Requests received over a run (all three endpoints together).
MaxRequests == 2

\* ------------------------------------------------- program constants
\* isFloat({min: 0.01, max: 1000000}) and the Transaction schema's bounds.
MinAmount == 1
MaxAmount == 100000000

\* README, Rate Limits: 100 transactions per minute per bank, scaled to 1
\* (no code counts requests, so the scale changes nothing).
RateLimit == 1

BANK_PREFIX == "OVE"
OtherBank == "B2"
Banks == {BANK_PREFIX, OtherBank}

Currencies == {"EUR", "USD"}

\* The accounts of the store: accountNumber -> owner, currency, opening balance.
AccountNumbers == {"OVE-1", "OVE-2"}
Users == {"u1", "u2"}
AccountUser(a) == IF a = "OVE-1" THEN "u1" ELSE "u2"
AccountCurrency(a) == "EUR"
InitBalance(a) == IF a = "OVE-1" THEN 2 ELSE 0

\* Account numbers a request may name: the stored ones and one that is absent.
NoAccount == "OVE-9"
RemoteAccount == "B2-1"

\* Concurrent request handlers (event-loop continuations in flight).
Handlers == {1, 2}

\* ----------------------------------------------------------- signatures
\* An RSA key pair is named by its generation; the public half of pair k
\* verifies exactly what the private half of pair k signed.
NoKey == "none"
LocalKeys == {"k1", "k2"}
OtherBankKey == "kB2"

NoPayload == [transactionId |-> 0, fromBank |-> "", fromAccount |-> "",
              toBank |-> "", toAccount |-> "", amount |-> 0, currency |-> "",
              description |-> "", timestamp |-> ""]
\* A string that is no JWT.
MalformedToken == [payload |-> NoPayload, key |-> NoKey]

\* jwt.sign(payload, privateKey, RS256): the token carries the payload it
\* was made from and is bound to the signing key.
JwtSign(payload, privateKey) == [payload |-> payload, key |-> privateKey]

\* jwt.verify(token, publicKey, RS256): throws (FALSE) unless the token is
\* well formed and was signed by the private half of publicKey.
JwtVerify(token, publicKey) ==
    /\ token /= MalformedToken
    /\ publicKey /= NoKey
    /\ token.key = publicKey

\* signTransaction: throws when the private key file is missing.
signTransactionThrows(privateKeyFile) == privateKeyFile = NoKey
\* Variant: a signer that returns no token.
signTransactionNone(payload, privateKeyFile) == MalformedToken
signTransaction(payload, privateKeyFile) == JwtSign(payload, privateKeyFile)

\* The key directory's answer for a bank: its public key, or NoKey when
\* the lookup fails or answers non-OK.
DirectoryKeys(bank) == IF bank = OtherBank THEN {OtherBankKey, NoKey} ELSE {NoKey}

\* Variant: a verifier that accepts every signature.
verifySignatureAny(payload, signature, fromBank, publicKeyFile, directoryKey) == TRUE

\* Variant: a verifier that asks the key directory for every bank, its own
\* included.
verifySignatureDirectory(payload, signature, fromBank, publicKeyFile, directoryKey) ==
    directoryKey /= NoKey /\ JwtVerify(signature, directoryKey)

\* Variant: a verifier that checks every signature against the local key.
verifySignatureLocal(payload, signature, fromBank, publicKeyFile, directoryKey) ==
    publicKeyFile /= NoKey /\ JwtVerify(signature, publicKeyFile)

\* verifySignature(payload, signature, fromBank) with the local public key
\* file and the directory's answer: the payload argument is never read.
verifySignature(payload, signature, fromBank, publicKeyFile, directoryKey) ==
    IF fromBank = BANK_PREFIX
    THEN publicKeyFile /= NoKey /\ JwtVerify(signature, publicKeyFile)
    ELSE directoryKey /= NoKey /\ JwtVerify(signature, directoryKey)

\* A public key that is no PEM text.
MalformedKey == "garbage"

\* The key directory's answer to GET /banks/:fromBank/publicKey: the fetch
\* rejects (fetched FALSE), answers non-OK, or answers OK with a body whose
\* publicKey is key (NoKey: the body is no JSON or has no such field).
NoLookup == [fetched |-> FALSE, ok |-> FALSE, key |-> NoKey]
LookupAnswers ==
    {NoLookup}
    \cup {[fetched |-> TRUE, ok |-> o, key |-> k] :
            o \in BOOLEAN, k \in {OtherBankKey, "k1", MalformedKey, NoKey}}

\* The key verifySignature draws from the directory's answer.
lookupKey(lookup) == IF lookup.fetched /\ lookup.ok THEN lookup.key ELSE NoKey

\* The try block of verifySignature: it returns true or throws.
verifyTry(signature, fromBank, publicKeyFile, lookup) ==
    IF fromBank = BANK_PREFIX
    THEN IF publicKeyFile = NoKey
         THEN "throws"
         ELSE IF JwtVerify(signature, publicKeyFile) THEN "true" ELSE "throws"
    ELSE IF ~lookup.fetched \/ ~lookup.ok
         THEN "throws"
         ELSE IF JwtVerify(signature, lookup.key) THEN "true" ELSE "throws"

\* Variant: a catch that passes the error on.
verifyCatchRethrow(outcome) == outcome
\* The catch of verifySignature: the error is logged and false returned.
verifyCatch(outcome) == IF outcome = "throws" THEN "false" ELSE outcome

\* ------------------------------------------------------------- ledger
\* No error (a record's errorCode and errorMessage default to null).
NoError == "null"

\* Variant: a funds check that always passes.
hasSufficientFundsAny(bal, amount) == TRUE
\* accountSchema.methods.hasSufficientFunds
hasSufficientFunds(bal, amount) == bal >= amount

\* accountSchema.methods.credit: throws on amount <= 0, else the copy's new balance.
creditThrows(amount) == amount <= 0
\* Variant: a credit that leaves the copy as it is.
creditNone(bal, amount) == bal
credit(bal, amount) == bal + amount

\* Variant: a debit that takes the amount twice.
debitTwice(bal, amount) == bal - 2 * amount
\* Variant: a debit that checks the funds only.
debitErrorFundsOnly(bal, amount) ==
    IF ~hasSufficientFunds(bal, amount) THEN "Insufficient funds" ELSE NoError
\* accountSchema.methods.debit: the error it throws, the amount check first.
debitError(bal, amount) ==
    IF amount <= 0 THEN "Debit amount must be positive"
    ELSE IF ~hasSufficientFunds(bal, amount) THEN "Insufficient funds"
    ELSE NoError
\* accountSchema.methods.debit: throws on amount <= 0 or insufficient funds.
debitThrows(bal, amount) == amount <= 0 \/ ~hasSufficientFunds(bal, amount)
debit(bal, amount) == bal - amount

\* Account.save(): the schema validator (balance min 0) runs on the copy.
accountSaveThrows(copy) == copy < 0
\* Variant: a save() that applies the copy's change to the stored balance
\* ($inc) instead of writing the copy's balance.
saveBalanceInc(stored, loaded, copy) == stored + (copy - loaded)
\* Account.save(): the stored balance becomes the copy's balance ($set),
\* whatever was stored since the copy was loaded.
saveBalance(stored, loaded, copy) == copy


\* ------------------------------------------------- transaction records
Statuses == {"PENDING", "IN_PROGRESS", "COMPLETED", "FAILED"}

\* Ids a relay may supply on its own; uuidv4 of the n-th request is n.
RelayIds == {100}
TxIds == (1..MaxRequests) \cup RelayIds

\* new Transaction({...}): status PENDING, no error, the given fields.
NewTransaction(id, fromAccount, toAccount, fromBank, toBank, amount, currency, isInternal, signature) ==
    [transactionId |-> id, fromAccount |-> fromAccount, toAccount |-> toAccount,
     fromBank |-> fromBank, toBank |-> toBank, amount |-> amount,
     currency |-> currency, status |-> "PENDING", errorCode |-> NoError,
     errorMessage |-> NoError, isInternal |-> isInternal, signature |-> signature]

NoTransaction == NewTransaction(0, "", "", "", "", 0, "", FALSE, MalformedToken)

\* transactionSchema.methods.updateStatus: the copy with the new status.
updateStatus(doc, status, errorCode, errorMessage) ==
    [doc EXCEPT !.status = status, !.errorCode = errorCode,
                !.errorMessage = errorMessage]
\* Variant: a completion mark that saves the document as it is.
markCompletedAsIs(doc) == doc
markCompleted(doc) == updateStatus(doc, "COMPLETED", NoError, NoError)
markFailed(doc, errorCode, errorMessage) ==
    updateStatus(doc, "FAILED", errorCode, errorMessage)
\* Variant: a dispatch mark that records FAILED.
markInProgressFailed(doc) == updateStatus(doc, "FAILED", NoError, NoError)
markInProgress(doc) == updateStatus(doc, "IN_PROGRESS", NoError, NoError)

\* Schema validators run by save(): amount within [0.01, 1000000].
validateThrows(doc) == doc.amount < MinAmount \/ doc.amount > MaxAmount

\* Variant: an insert that only runs the validators, with no unique index.
insertThrowsNoIndex(store, doc) == doc.amount < MinAmount \/ doc.amount > MaxAmount

\* save() of a new document inserts it; the unique index on transactionId
\* refuses a second record with the same id.
insertThrows(store, doc) ==
    validateThrows(doc) \/ doc.transactionId \in DOMAIN store
insert(store, doc) ==
    [id \in DOMAIN store \cup {doc.transactionId} |->
        IF id = doc.transactionId THEN doc ELSE store[id]]

\* save() of a stored document writes the copy's modified paths over it.
update(store, doc) == [store EXCEPT ![doc.transactionId] = doc]

\* ---------------------------------------------------------------- state
VARIABLES
    balance,        \* stored Account.balance, by accountNumber
    transactions,   \* stored Transaction records, by transactionId
    handler,        \* the request each handler works on and its local copies
    requests,       \* requests received so far
    response,       \* the answer sent last (status, error code, reported status)
    privateKeyFile, \* content of PRIVATE_KEY_PATH
    publicKeyFile,  \* content of PUBLIC_KEY_PATH
    sig,            \* a payload signed by this bank, on its way to a verifier
    debited,        \* history: sum of the debits that returned, by account
    credited,       \* history: sum of the credits that returned, by account
    creditedFor,    \* history: incoming credits that returned, by transactionId
    inserted,       \* history: records inserted, by transactionId
    dispatched,     \* history: dispatches to the relay that resolved, by transactionId
    call            \* a call of verifySignature or of Account.debit on its own

vars == <<balance, transactions, handler, requests, response, privateKeyFile,
          publicKeyFile, sig, debited, credited, creditedFor, inserted,
          dispatched, call>>

keyVars == <<privateKeyFile, publicKeyFile, sig, call>>
history == <<debited, credited, creditedFor, inserted, dispatched>>
ledgerVars == <<balance, transactions, handler, requests, response, history>>

\* req.body; fields an endpoint does not read keep these defaults.
NoBody == [transactionId |-> 0, fromBank |-> "", fromAccount |-> "",
           toBank |-> "", toAccount |-> "", amount |-> 0, currency |-> "",
           signature |-> MalformedToken]

NoResponse == [status |-> 0, code |-> "", txStatus |-> ""]
Response(status, code) == [status |-> status, code |-> code, txStatus |-> ""]

NoErrorData == [parsed |-> FALSE, hasError |-> FALSE, code |-> "", message |-> ""]

\* A handler's locals.  senderLoaded and recipientLoaded are the balances
\* the account copies were read with; preDebit and creditBacks are history:
\* the stored balance right before the debit was saved, and the number of
\* credit-backs saved since.
Idle == [kind |-> "none", pc |-> "idle", n |-> 0, user |-> "", body |-> NoBody,
         senderLoaded |-> 0, senderBalance |-> 0,
         recipientLoaded |-> 0, recipientBalance |-> 0,
         tx |-> NoTransaction, relayStatus |-> 0, errorData |-> NoErrorData,
         preDebit |-> 0, creditBacks |-> 0]

Free(h) == handler[h].pc = "idle"

\* Handlers are interchangeable: a request is taken by the lowest free one.
Accepts(h) == Free(h) /\ \A g \in Handlers : Free(g) => g >= h

\* The handler answers and returns: its locals go out of scope.
Done(h, resp) ==
    /\ handler' = [handler EXCEPT ![h] = Idle]
    /\ response' = resp
\* The handler goes on to its next await.
Goto(h, rec, pc) ==
    /\ handler' = [handler EXCEPT ![h] = [rec EXCEPT !.pc = pc]]
    /\ UNCHANGED response

NoSig == [stage |-> "none", payload |-> NoPayload, token |-> MalformedToken,
          keysChanged |-> FALSE, result |-> FALSE]

\* A call of verifySignature or of Account.debit made on its own: its
\* arguments, the document copy it works on and what it gave the caller.
NoCall == [fn |-> "none", stage |-> "none", signature |-> MalformedToken,
           fromBank |-> "", lookup |-> NoLookup, account |-> "", amount |-> 0,
           loaded |-> 0, copy |-> 0, outcome |-> ""]

Init ==
    /\ balance = [a \in AccountNumbers |-> InitBalance(a)]
    /\ transactions = <<>>
    /\ handler = [h \in Handlers |-> Idle]
    /\ requests = 0
    /\ response = NoResponse
    /\ privateKeyFile = "k1"
    /\ publicKeyFile = "k1"
    /\ sig = NoSig
    /\ debited = [a \in AccountNumbers |-> 0]
    /\ credited = [a \in AccountNumbers |-> 0]
    /\ creditedFor = [id \in TxIds |-> 0]
    /\ inserted = [id \in TxIds |-> 0]
    /\ dispatched = [id \in TxIds |-> 0]
    /\ call = NoCall

\* express-validator: amount isFloat({min: 0.01, max: 1000000}).
amountValid(amount) == amount >= MinAmount /\ amount <= MaxAmount

\* Amounts a request may carry: below the minimum, valid ones, above the maximum.
RequestAmounts == {0, 1, 2, MaxAmount + 1}

\* ------------------------------------------------------- POST /internal
InternalReceive(h, user, fromAccount, toAccount, amount) ==
    /\ Accepts(h)
    /\ requests < MaxRequests
    /\ requests' = requests + 1
    /\ IF ~amountValid(amount)
       THEN Done(h, Response(400, "VALIDATION_ERROR"))
       ELSE Goto(h, [Idle EXCEPT !.kind = "internal", !.n = requests + 1,
                                 !.user = user,
                                 !.body = [NoBody EXCEPT !.fromAccount = fromAccount,
                                                         !.toAccount = toAccount,
                                                         !.amount = amount]],
                 "findSender")
    /\ UNCHANGED <<balance, transactions, keyVars, history>>

InternalFindSender(h) ==
    LET r == handler[h]
        b == r.body
    IN
    /\ r.kind = "internal" /\ r.pc = "findSender"
    /\ IF b.fromAccount \notin AccountNumbers
       THEN Done(h, Response(404, "ACCOUNT_NOT_FOUND"))
       ELSE IF AccountUser(b.fromAccount) /= r.user
       THEN Done(h, Response(403, "FORBIDDEN"))
       ELSE Goto(h, [r EXCEPT !.senderLoaded = balance[b.fromAccount],
                              !.senderBalance = balance[b.fromAccount]],
                 "findRecipient")
    /\ UNCHANGED <<balance, transactions, requests, keyVars, history>>

\* Account.findOne(toAccount), the checks, new Transaction, then
\* senderAccount.debit up to its save().
InternalFindRecipient(h) ==
    LET r == handler[h]
        b == r.body
    IN
    /\ r.kind = "internal" /\ r.pc = "findRecipient"
    /\ IF b.toAccount \notin AccountNumbers
       THEN Done(h, Response(404, "ACCOUNT_NOT_FOUND"))
       ELSE IF AccountCurrency(b.fromAccount) /= AccountCurrency(b.toAccount)
       THEN Done(h, Response(400, "CURRENCY_MISMATCH"))
       ELSE IF ~hasSufficientFunds(r.senderBalance, b.amount)
       THEN Done(h, Response(400, "INSUFFICIENT_FUNDS"))
       ELSE IF debitThrows(r.senderBalance, b.amount)
       THEN Done(h, Response(500, "INTERNAL_SERVER_ERROR"))
       ELSE Goto(h, [r EXCEPT
                       !.recipientLoaded = balance[b.toAccount],
                       !.recipientBalance = balance[b.toAccount],
                       !.tx = NewTransaction(r.n, b.fromAccount, b.toAccount,
                                             BANK_PREFIX, BANK_PREFIX, b.amount,
                                             AccountCurrency(b.fromAccount), TRUE,
                                             MalformedToken),
                       !.senderBalance = debit(r.senderBalance, b.amount)],
                 "debitSave")
    /\ UNCHANGED <<balance, transactions, requests, keyVars, history>>

\* senderAccount.debit's save(), then recipientAccount.credit up to its save().
InternalDebitSave(h) ==
    LET r == handler[h]
        b == r.body
    IN
    /\ r.kind = "internal" /\ r.pc = "debitSave"
    /\ ~accountSaveThrows(r.senderBalance)
    /\ balance' = [balance EXCEPT ![b.fromAccount] =
                      saveBalance(@, r.senderLoaded, r.senderBalance)]
    /\ debited' = [debited EXCEPT ![b.fromAccount] = @ + b.amount]
    /\ IF creditThrows(b.amount)
       THEN Done(h, Response(500, "INTERNAL_SERVER_ERROR"))
       ELSE Goto(h, [r EXCEPT !.preDebit = balance[b.fromAccount],
                              !.recipientBalance = credit(r.recipientBalance, b.amount)],
                 "creditSave")
    /\ UNCHANGED <<transactions, requests, keyVars, dispatched, credited, creditedFor, inserted>>

\* recipientAccount.credit's save(), then markCompleted up to its save().
InternalCreditSave(h) ==
    LET r == handler[h]
        b == r.body
    IN
    /\ r.kind = "internal" /\ r.pc = "creditSave"
    /\ ~accountSaveThrows(r.recipientBalance)
    /\ balance' = [balance EXCEPT ![b.toAccount] =
                      saveBalance(@, r.recipientLoaded, r.recipientBalance)]
    /\ credited' = [credited EXCEPT ![b.toAccount] = @ + b.amount]
    /\ Goto(h, [r EXCEPT !.tx = markCompleted(r.tx)], "txSave")
    /\ UNCHANGED <<transactions, requests, keyVars, dispatched, debited, creditedFor, inserted>>

\* markCompleted's save(): the record is inserted, already COMPLETED.
InternalTxSave(h) ==
    LET r == handler[h] IN
    /\ r.kind = "internal" /\ r.pc = "txSave"
    /\ ~insertThrows(transactions, r.tx)
    /\ transactions' = insert(transactions, r.tx)
    /\ inserted' = [inserted EXCEPT ![r.tx.transactionId] = @ + 1]
    /\ Done(h, Response(201, "OK"))
    /\ UNCHANGED <<balance, requests, keyVars, dispatched, debited, credited, creditedFor>>

\* A save() that throws (the store fails the write, or the document does
\* not validate): the handler's catch passes the error on.
InternalSaveFails(h) ==
    LET r == handler[h] IN
    /\ r.kind = "internal" /\ r.pc \in {"debitSave", "creditSave", "txSave"}
    /\ Done(h, Response(500, "INTERNAL_SERVER_ERROR"))
    /\ UNCHANGED <<balance, transactions, requests, keyVars, history>>

\* ------------------------------------------------------- POST /external
\* The payload that is signed and sent to the relay.
Payload(id, fromBank, fromAccount, toBank, toAccount, amount, currency) ==
    [transactionId |-> id, fromBank |-> fromBank, fromAccount |-> fromAccount,
     toBank |-> toBank, toAccount |-> toAccount, amount |-> amount,
     currency |-> currency, description |-> "", timestamp |-> "now"]

ExternalReceive(h, user, fromAccount, toBank, amount, currency) ==
    /\ Accepts(h)
    /\ requests < MaxRequests
    /\ requests' = requests + 1
    /\ IF ~amountValid(amount)
       THEN Done(h, Response(400, "VALIDATION_ERROR"))
       ELSE IF toBank = BANK_PREFIX
       THEN Done(h, Response(400, "INVALID_DESTINATION"))
       ELSE Goto(h, [Idle EXCEPT !.kind = "external", !.n = requests + 1,
                                 !.user = user,
                                 !.body = [NoBody EXCEPT !.fromAccount = fromAccount,
                                                         !.toAccount = RemoteAccount,
                                                         !.toBank = toBank,
                                                         !.amount = amount,
                                                         !.currency = currency]],
                 "findSender")
    /\ UNCHANGED <<balance, transactions, keyVars, history>>

\* Account.findOne(fromAccount), the checks, new Transaction up to its save().
ExternalFindSender(h) ==
    LET r == handler[h]
        b == r.body
    IN
    /\ r.kind = "external" /\ r.pc = "findSender"
    /\ IF b.fromAccount \notin AccountNumbers
       THEN Done(h, Response(404, "ACCOUNT_NOT_FOUND"))
       ELSE IF AccountUser(b.fromAccount) /= r.user
       THEN Done(h, Response(403, "FORBIDDEN"))
       ELSE IF AccountCurrency(b.fromAccount) /= b.currency
       THEN Done(h, Response(400, "CURRENCY_MISMATCH"))
       ELSE IF ~hasSufficientFunds(balance[b.fromAccount], b.amount)
       THEN Done(h, Response(400, "INSUFFICIENT_FUNDS"))
       ELSE Goto(h, [r EXCEPT
                       !.senderLoaded = balance[b.fromAccount],
                       !.senderBalance = balance[b.fromAccount],
                       !.tx = NewTransaction(r.n, b.fromAccount, b.toAccount,
                                             BANK_PREFIX, b.toBank, b.amount,
                                             b.currency, FALSE, MalformedToken)],
                 "txSave")
    /\ UNCHANGED <<balance, transactions, requests, keyVars, history>>

\* transaction.save() (PENDING), then signTransaction and markInProgress
\* up to its save().
ExternalTxSave(h) ==
    LET r == handler[h]
        b == r.body
        payload == Payload(r.tx.transactionId, BANK_PREFIX, b.fromAccount, b.toBank,
                           b.toAccount, b.amount, b.currency)
    IN
    /\ r.kind = "external" /\ r.pc = "txSave"
    /\ ~insertThrows(transactions, r.tx)
    /\ transactions' = insert(transactions, r.tx)
    /\ inserted' = [inserted EXCEPT ![r.tx.transactionId] = @ + 1]
    /\ IF signTransactionThrows(privateKeyFile)
       THEN Done(h, Response(500, "INTERNAL_SERVER_ERROR"))
       ELSE Goto(h, [r EXCEPT !.tx = markInProgress(
                         [r.tx EXCEPT !.signature =
                             signTransaction(payload, privateKeyFile)])],
                 "inProgressSave")
    /\ UNCHANGED <<balance, requests, keyVars, dispatched, debited, credited, creditedFor>>

\* markInProgress's save(), then senderAccount.debit up to its save().
ExternalInProgressSave(h) ==
    LET r == handler[h]
        b == r.body
    IN
    /\ r.kind = "external" /\ r.pc = "inProgressSave"
    /\ transactions' = update(transactions, r.tx)
    /\ IF debitThrows(r.senderBalance, b.amount)
       THEN Done(h, Response(500, "INTERNAL_SERVER_ERROR"))
       ELSE Goto(h, [r EXCEPT !.senderBalance = debit(r.senderBalance, b.amount)],
                 "debitSave")
    /\ UNCHANGED <<balance, requests, keyVars, history>>

\* senderAccount.debit's save(), then the fetch to the relay is issued.
ExternalDebitSave(h) ==
    LET r == handler[h]
        b == r.body
    IN
    /\ r.kind = "external" /\ r.pc = "debitSave"
    /\ ~accountSaveThrows(r.senderBalance)
    /\ balance' = [balance EXCEPT ![b.fromAccount] =
                      saveBalance(@, r.senderLoaded, r.senderBalance)]
    /\ debited' = [debited EXCEPT ![b.fromAccount] = @ + b.amount]
    /\ Goto(h, [r EXCEPT !.preDebit = balance[b.fromAccount]], "relay")
    /\ UNCHANGED <<transactions, requests, keyVars, dispatched, credited, creditedFor, inserted>>

\* What the relay may answer: the HTTP status (0: the fetch rejects, no
\* answer) and the body as response.json() reads it.
RelayErrors == {[code |-> "INSUFFICIENT_FUNDS", message |-> "Insufficient funds"],
                [code |-> "ACCOUNT_NOT_FOUND", message |-> "No such account"]}
RelayAnswers ==
    {[status |-> 0, parsed |-> FALSE, hasError |-> FALSE, code |-> "", message |-> ""]}
    \cup {[status |-> st, parsed |-> p, hasError |-> FALSE, code |-> "", message |-> ""] :
            st \in {200, 400}, p \in BOOLEAN}
    \cup {[status |-> 400, parsed |-> TRUE, hasError |-> TRUE, code |-> e.code,
           message |-> e.message] : e \in RelayErrors}

\* response.ok
responseOk(status) == status >= 200 /\ status <= 299

\* Variant: a catch that sends the transfer to the relay again.
EnterCatchRetry(h, r) == Goto(h, r, "relay")
\* The catch around the dispatch: senderAccount.credit up to its save().
EnterCatch(h, r) ==
    IF creditThrows(r.body.amount)
    THEN Done(h, Response(500, "INTERNAL_SERVER_ERROR"))
    ELSE Goto(h, [r EXCEPT !.senderBalance = credit(r.senderBalance, r.body.amount)],
              "catchCreditSave")

\* The fetch resolves or rejects, and the body is read.
ExternalRelay(h, answer) ==
    LET r == [handler[h] EXCEPT
                !.relayStatus = answer.status,
                !.errorData = [parsed |-> answer.parsed, hasError |-> answer.hasError,
                               code |-> answer.code, message |-> answer.message]]
    IN
    /\ handler[h].kind = "external" /\ handler[h].pc = "relay"
    /\ IF answer.status = 0 \/ ~answer.parsed
       THEN EnterCatch(h, r)
       ELSE IF ~responseOk(answer.status)
       THEN IF creditThrows(r.body.amount)
            THEN EnterCatch(h, r)
            ELSE Goto(h, [r EXCEPT !.senderBalance =
                                      credit(r.senderBalance, r.body.amount)],
                      "rejectCreditSave")
       ELSE Done(h, Response(201, "OK"))
    /\ dispatched' = [dispatched EXCEPT ![handler[h].tx.transactionId] = @ + 1]
    /\ UNCHANGED <<balance, transactions, requests, keyVars, debited, credited,
                   creditedFor, inserted>>

\* The rejection branch: credit's save(), then errorData.error.code is read
\* and markFailed runs up to its save().
ExternalRejectCreditSave(h) ==
    LET r == [handler[h] EXCEPT !.creditBacks = @ + 1]
        b == r.body
    IN
    /\ r.kind = "external" /\ r.pc = "rejectCreditSave"
    /\ ~accountSaveThrows(r.senderBalance)
    /\ balance' = [balance EXCEPT ![b.fromAccount] =
                      saveBalance(@, r.senderLoaded, r.senderBalance)]
    /\ credited' = [credited EXCEPT ![b.fromAccount] = @ + b.amount]
    /\ IF ~r.errorData.hasError
       THEN EnterCatch(h, r)
       ELSE Goto(h, [r EXCEPT !.tx = markFailed(r.tx, r.errorData.code,
                                                r.errorData.message)],
                 "rejectTxSave")
    /\ UNCHANGED <<transactions, requests, keyVars, dispatched, debited, creditedFor, inserted>>

\* markFailed's save(), then the relay's error is returned to the caller.
ExternalRejectTxSave(h) ==
    LET r == handler[h] IN
    /\ r.kind = "external" /\ r.pc = "rejectTxSave"
    /\ transactions' = update(transactions, r.tx)
    /\ Done(h, Response(r.relayStatus, r.errorData.code))
    /\ UNCHANGED <<balance, requests, keyVars, history>>

\* The catch: credit's save(), then markFailed('CENTRAL_BANK_ERROR') up to
\* its save().
ExternalCatchCreditSave(h) ==
    LET r == [handler[h] EXCEPT !.creditBacks = @ + 1]
        b == r.body
    IN
    /\ r.kind = "external" /\ r.pc = "catchCreditSave"
    /\ ~accountSaveThrows(r.senderBalance)
    /\ balance' = [balance EXCEPT ![b.fromAccount] =
                      saveBalance(@, r.senderLoaded, r.senderBalance)]
    /\ credited' = [credited EXCEPT ![b.fromAccount] = @ + b.amount]
    /\ Goto(h, [r EXCEPT !.tx = markFailed(r.tx, "CENTRAL_BANK_ERROR",
                                           "Failed to communicate with central bank")],
            "catchTxSave")
    /\ UNCHANGED <<transactions, requests, keyVars, dispatched, debited, creditedFor, inserted>>

\* The catch: markFailed's save(), then the error is rethrown to next(error).
ExternalCatchTxSave(h) ==
    LET r == handler[h] IN
    /\ r.kind = "external" /\ r.pc = "catchTxSave"
    /\ transactions' = update(transactions, r.tx)
    /\ Done(h, Response(500, "INTERNAL_SERVER_ERROR"))
    /\ UNCHANGED <<balance, requests, keyVars, history>>

\* A save() that throws.  Before the dispatch and inside the catch the
\* error leaves through the outer catch; inside the rejection branch it is
\* caught by the catch around the dispatch.
ExternalSaveFails(h) ==
    LET r == handler[h] IN
    /\ r.kind = "external"
    /\ r.pc \in {"txSave", "inProgressSave", "debitSave", "rejectCreditSave",
                 "rejectTxSave", "catchCreditSave", "catchTxSave"}
    /\ IF r.pc \in {"rejectCreditSave", "rejectTxSave"}
       THEN EnterCatch(h, r)
       ELSE Done(h, Response(500, "INTERNAL_SERVER_ERROR"))
    /\ UNCHANGED <<balance, transactions, requests, keyVars, history>>


\* ------------------------------------------------------- POST /incoming
\* The fields of req.body that payloadToVerify is built from.
BodyPayload(b) ==
    Payload(b.transactionId, b.fromBank, b.fromAccount, b.toBank, b.toAccount,
            b.amount, b.currency)

\* A transfer as the relay forwards it: signed with the key named.
Forwarded(id, fromBank, toBank, toAccount, amount, currency, key) ==
    LET b == [NoBody EXCEPT !.transactionId = id, !.fromBank = fromBank,
                            !.fromAccount = RemoteAccount, !.toBank = toBank,
                            !.toAccount = toAccount, !.amount = amount,
                            !.currency = currency]
    IN [b EXCEPT !.signature = JwtSign(BodyPayload(b), key)]

\* Bodies the endpoint may receive for transactionId id: a well-formed
\* transfer from the other bank, and that transfer with one thing changed.
IncomingBodies(id) ==
    LET good(a) == Forwarded(id, OtherBank, BANK_PREFIX, a, 1, "EUR", OtherBankKey)
    IN  {good(a) : a \in AccountNumbers}
        \cup {Forwarded(id, OtherBank, OtherBank, "OVE-2", 1, "EUR", OtherBankKey),
              Forwarded(id, OtherBank, BANK_PREFIX, NoAccount, 1, "EUR", OtherBankKey),
              Forwarded(id, OtherBank, BANK_PREFIX, "OVE-2", 1, "USD", OtherBankKey),
              Forwarded(id, OtherBank, BANK_PREFIX, "OVE-2", 0, "EUR", OtherBankKey),
              Forwarded(id, OtherBank, BANK_PREFIX, "OVE-2", MaxAmount + 1, "EUR",
                        OtherBankKey),
              Forwarded(id, OtherBank, BANK_PREFIX, "OVE-2", 1, "EUR", "k1"),
              Forwarded(id, BANK_PREFIX, BANK_PREFIX, "OVE-2", 1, "EUR", "k1"),
              Forwarded(id, BANK_PREFIX, BANK_PREFIX, "OVE-2", 1, "EUR", OtherBankKey),
              [good("OVE-2") EXCEPT !.signature = MalformedToken],
              [good("OVE-2") EXCEPT !.amount = 2]}

IncomingReceive(h, body) ==
    /\ Accepts(h)
    /\ requests < MaxRequests
    /\ requests' = requests + 1
    /\ IF body.toBank /= BANK_PREFIX
       THEN Done(h, Response(400, "INVALID_DESTINATION"))
       ELSE Goto(h, [Idle EXCEPT !.kind = "incoming", !.n = requests + 1,
                                 !.body = body], "findTx")
    /\ UNCHANGED <<balance, transactions, keyVars, history>>

\* Variant: a duplicate check that answers COMPLETED whatever is stored.
existingStatusCompleted(store, id) == "COMPLETED"
\* The status the duplicate check answers with.
existingStatus(store, id) == store[id].status

\* Transaction.findOne({transactionId}) and the duplicate check.
IncomingFindTx(h) ==
    LET r == handler[h]
        b == r.body
    IN
    /\ r.kind = "incoming" /\ r.pc = "findTx"
    /\ IF b.transactionId \in DOMAIN transactions
       THEN Done(h, [status |-> 200, code |-> "ALREADY_PROCESSED",
                     txStatus |-> existingStatus(transactions, b.transactionId)])
       ELSE Goto(h, r, "verify")
    /\ UNCHANGED <<balance, transactions, requests, keyVars, history>>

\* verifySignature resolves; directoryKey is the key directory's answer.
IncomingVerify(h, directoryKey) ==
    LET r == handler[h]
        b == r.body
    IN
    /\ r.kind = "incoming" /\ r.pc = "verify"
    /\ directoryKey \in DirectoryKeys(b.fromBank)
    /\ IF ~verifySignature(BodyPayload(b), b.signature, b.fromBank, publicKeyFile,
                           directoryKey)
       THEN Done(h, Response(400, "INVALID_SIGNATURE"))
       ELSE Goto(h, r, "findRecipient")
    /\ UNCHANGED <<balance, transactions, requests, keyVars, history>>

\* Account.findOne(toAccount), the checks, new Transaction, then
\* recipientAccount.credit up to its save().
IncomingFindRecipient(h) ==
    LET r == handler[h]
        b == r.body
    IN
    /\ r.kind = "incoming" /\ r.pc = "findRecipient"
    /\ IF b.toAccount \notin AccountNumbers
       THEN Done(h, Response(404, "ACCOUNT_NOT_FOUND"))
       ELSE IF AccountCurrency(b.toAccount) /= b.currency
       THEN Done(h, Response(400, "CURRENCY_MISMATCH"))
       ELSE IF creditThrows(b.amount)
       THEN Done(h, Response(500, "TRANSACTION_PROCESSING_ERROR"))
       ELSE Goto(h, [r EXCEPT
                       !.tx = NewTransaction(b.transactionId, b.fromAccount,
                                             b.toAccount, b.fromBank, b.toBank,
                                             b.amount, b.currency, FALSE, b.signature),
                       !.recipientLoaded = balance[b.toAccount],
                       !.recipientBalance = credit(balance[b.toAccount], b.amount)],
                 "creditSave")
    /\ UNCHANGED <<balance, transactions, requests, keyVars, history>>

\* recipientAccount.credit's save(), then markCompleted up to its save().
IncomingCreditSave(h) ==
    LET r == handler[h]
        b == r.body
    IN
    /\ r.kind = "incoming" /\ r.pc = "creditSave"
    /\ ~accountSaveThrows(r.recipientBalance)
    /\ balance' = [balance EXCEPT ![b.toAccount] =
                      saveBalance(@, r.recipientLoaded, r.recipientBalance)]
    /\ credited' = [credited EXCEPT ![b.toAccount] = @ + b.amount]
    /\ creditedFor' = [creditedFor EXCEPT ![b.transactionId] = @ + 1]
    /\ Goto(h, [r EXCEPT !.tx = markCompleted(r.tx)], "txSave")
    /\ UNCHANGED <<transactions, requests, keyVars, dispatched, debited, inserted>>

\* markCompleted's save(): the record is inserted, already COMPLETED.
IncomingTxSave(h) ==
    LET r == handler[h] IN
    /\ r.kind = "incoming" /\ r.pc = "txSave"
    /\ ~insertThrows(transactions, r.tx)
    /\ transactions' = insert(transactions, r.tx)
    /\ inserted' = [inserted EXCEPT ![r.tx.transactionId] = @ + 1]
    /\ Done(h, [status |-> 200, code |-> "OK", txStatus |-> "COMPLETED"])
    /\ UNCHANGED <<balance, requests, keyVars, dispatched, debited, credited, creditedFor>>

\* A save() that throws: the handler's catch answers 500.
IncomingSaveFails(h) ==
    LET r == handler[h] IN
    /\ r.kind = "incoming" /\ r.pc \in {"creditSave", "txSave"}
    /\ Done(h, Response(500, "TRANSACTION_PROCESSING_ERROR"))
    /\ UNCHANGED <<balance, transactions, requests, keyVars, history>>

\* ---------------------------------------------------------- behaviours
Receive(h) ==
    \/ \E user \in Users, from \in AccountNumbers \cup {NoAccount},
          to \in AccountNumbers \cup {NoAccount}, amount \in RequestAmounts :
          InternalReceive(h, user, from, to, amount)
    \/ \E user \in Users, from \in AccountNumbers \cup {NoAccount},
          toBank \in Banks, amount \in RequestAmounts, currency \in Currencies :
          ExternalReceive(h, user, from, toBank, amount, currency)
    \/ \E id \in RelayIds \cup DOMAIN transactions :
          \E body \in IncomingBodies(id) : IncomingReceive(h, body)

Step(h) ==
    \/ InternalFindSender(h)
    \/ InternalFindRecipient(h)
    \/ InternalDebitSave(h)
    \/ InternalCreditSave(h)
    \/ InternalTxSave(h)
    \/ InternalSaveFails(h)
    \/ ExternalFindSender(h)
    \/ ExternalTxSave(h)
    \/ ExternalInProgressSave(h)
    \/ ExternalDebitSave(h)
    \/ \E answer \in RelayAnswers : ExternalRelay(h, answer)
    \/ ExternalRejectCreditSave(h)
    \/ ExternalRejectTxSave(h)
    \/ ExternalCatchCreditSave(h)
    \/ ExternalCatchTxSave(h)
    \/ ExternalSaveFails(h)
    \/ IncomingFindTx(h)
    \/ \E k \in {OtherBankKey, NoKey} : IncomingVerify(h, k)
    \/ IncomingFindRecipient(h)
    \/ IncomingCreditSave(h)
    \/ IncomingTxSave(h)
    \/ IncomingSaveFails(h)

Next == \E h \in Handlers : Receive(h) \/ Step(h)

\* Requests handled concurrently, in any interleaving of their awaits.
Spec == Init /\ [][Next]_vars

\* Requests handled one after the other: a request is received only when
\* no other is in flight.
NextSeq ==
    \E h \in Handlers :
        \/ (\A g \in Handlers : Free(g)) /\ Receive(h)
        \/ Step(h)

SpecSeq == Init /\ [][NextSeq]_vars

\* ---------------------------------------------- keys and the round trip
\* POST /keys/regenerate: a fresh pair is written over both key files.
\* Pairs generated over a run are those of LocalKeys.
RegenerateKeys ==
    /\ privateKeyFile = "k1"
    /\ privateKeyFile' = "k2"
    /\ publicKeyFile' = "k2"
    /\ sig' = IF sig.stage = "signed" THEN [sig EXCEPT !.keysChanged = TRUE] ELSE sig
    /\ UNCHANGED <<ledgerVars, call>>

\* Payloads this bank signs.
SigPayloads ==
    {Payload(id, BANK_PREFIX, from, OtherBank, RemoteAccount, amount, currency) :
        id \in 1..MaxRequests, from \in AccountNumbers, amount \in {1, 2},
        currency \in Currencies}

\* signTransaction(payload) returns a token.
SigSign(payload) ==
    /\ sig.stage \in {"none", "verified"}
    /\ ~signTransactionThrows(privateKeyFile)
    /\ sig' = [stage |-> "signed", payload |-> payload,
               token |-> signTransaction(payload, privateKeyFile),
               keysChanged |-> FALSE, result |-> FALSE]
    /\ UNCHANGED <<ledgerVars, privateKeyFile, publicKeyFile, call>>

\* verifySignature(payload, token, BANK_PREFIX) resolves; the self branch
\* asks no directory.
SigVerify ==
    /\ sig.stage = "signed"
    /\ sig' = [sig EXCEPT !.stage = "verified",
                          !.result = verifySignature(sig.payload, sig.token,
                                                     BANK_PREFIX, publicKeyFile, NoKey)]
    /\ UNCHANGED <<ledgerVars, privateKeyFile, publicKeyFile, call>>

NextSig ==
    \/ RegenerateKeys
    \/ \E payload \in SigPayloads : SigSign(payload)
    \/ SigVerify

\* The signature helpers alone, with the key pair regenerated at any time.
SpecSig == Init /\ [][NextSig]_vars

\* ------------------------------------------- the helpers on their own
\* Balances an account may hold when debit is called on it.
MaxCallBalance == 2
\* Amounts debit may be called with: negative, zero, covered, not covered.
CallAmounts == (0 - 1)..(MaxCallBalance + 1)
\* Contents of PUBLIC_KEY_PATH when verifySignature is called: no file, the
\* key of the pair in use, a file that is no key.
KeyFiles == {NoKey, "k1", MalformedKey}
\* Signatures verifySignature may be given: no JWT, and a token signed by
\* this bank's key, by a key it no longer uses, or by the other bank's key.
CallSignatures ==
    {MalformedToken}
    \cup {JwtSign(Payload(100, OtherBank, RemoteAccount, BANK_PREFIX, "OVE-2", 1, "EUR"), k) :
            k \in LocalKeys \cup {OtherBankKey}}

InitCalls ==
    /\ balance \in [AccountNumbers -> 0..MaxCallBalance]
    /\ transactions = <<>>
    /\ handler = [h \in Handlers |-> Idle]
    /\ requests = 0
    /\ response = NoResponse
    /\ privateKeyFile = "k1"
    /\ publicKeyFile \in KeyFiles
    /\ sig = NoSig
    /\ debited = [a \in AccountNumbers |-> 0]
    /\ credited = [a \in AccountNumbers |-> 0]
    /\ creditedFor = [id \in TxIds |-> 0]
    /\ inserted = [id \in TxIds |-> 0]
    /\ dispatched = [id \in TxIds |-> 0]
    /\ call = NoCall

\* No call is in flight.
CallOver == call.stage \in {"none", "returned", "thrown"}

\* What the caller of verifySignature gets: a returned boolean, or an error.
VerifyResolve(c, outcome) ==
    [c EXCEPT !.outcome = outcome,
              !.stage = IF outcome = "throws" THEN "thrown" ELSE "returned"]

\* verifySignature(payload, signature, fromBank) is called.  For this
\* bank's own prefix it resolves from the key file; for another bank it
\* awaits the key directory.
VerifyCall(signature, fromBank) ==
    LET c == [NoCall EXCEPT !.fn = "verifySignature", !.signature = signature,
                            !.fromBank = fromBank]
    IN
    /\ CallOver
    /\ call' = IF fromBank = BANK_PREFIX
               THEN VerifyResolve(c, verifyCatch(verifyTry(signature, fromBank,
                                                           publicKeyFile, NoLookup)))
               ELSE [c EXCEPT !.stage = "lookup"]
    /\ UNCHANGED <<ledgerVars, privateKeyFile, publicKeyFile, sig>>

\* The key directory answers (or the fetch rejects) and verifySignature resolves.
VerifyLookup(lookup) ==
    /\ call.fn = "verifySignature" /\ call.stage = "lookup"
    /\ call' = VerifyResolve([call EXCEPT !.lookup = lookup],
                             verifyCatch(verifyTry(call.signature, call.fromBank,
                                                   publicKeyFile, lookup)))
    /\ UNCHANGED <<ledgerVars, privateKeyFile, publicKeyFile, sig>>

\* account.debit(amount) is called on a freshly loaded copy: it throws, or
\* lowers the copy's balance and awaits save().
DebitCall(account, amount) ==
    LET c == [NoCall EXCEPT !.fn = "debit", !.account = account, !.amount = amount,
                            !.loaded = balance[account], !.copy = balance[account]]
    IN
    /\ CallOver
    /\ call' = IF debitError(c.copy, amount) /= NoError
               THEN [c EXCEPT !.stage = "thrown",
                              !.outcome = debitError(c.copy, amount)]
               ELSE [c EXCEPT !.stage = "saving", !.copy = debit(c.copy, amount)]
    /\ UNCHANGED <<ledgerVars, privateKeyFile, publicKeyFile, sig>>

\* debit's save() writes the copy's balance and debit returns.
DebitSave ==
    /\ call.fn = "debit" /\ call.stage = "saving"
    /\ ~accountSaveThrows(call.copy)
    /\ balance' = [balance EXCEPT ![call.account] =
                      saveBalance(@, call.loaded, call.copy)]
    /\ call' = [call EXCEPT !.stage = "returned"]
    /\ UNCHANGED <<transactions, handler, requests, response, history,
                   privateKeyFile, publicKeyFile, sig>>

NextCalls ==
    \/ \E signature \in CallSignatures, fromBank \in Banks :
          VerifyCall(signature, fromBank)
    \/ \E lookup \in LookupAnswers : VerifyLookup(lookup)
    \/ \E account \in AccountNumbers, amount \in CallAmounts :
          DebitCall(account, amount)
    \/ DebitSave

\* verifySignature and Account.debit called on their own, with any
\* arguments, key file and balance.
SpecCalls == InitCalls /\ [][NextCalls]_vars

\* ----------------------------------------------------------- properties
\* No handler is in flight.
Quiescent == \A h \in Handlers : Free(h)

\* C1: whenever no handler is in flight, the stored balance of an account
\* that received no credit equals its opening balance minus the sum of the
\* debits that returned successfully.  Two handlers that load the same
\* balance both debit their copy and the later save() overwrites the earlier.
DebitsAccounted ==
    \A a \in AccountNumbers :
        Quiescent /\ credited[a] = 0 => balance[a] = InitBalance(a) - debited[a]

\* C2: in every reachable state, under any interleaving of the three kinds
\* of transfer, the stored balance of every account is >= 0.
BalanceNonNegative == \A a \in AccountNumbers : balance[a] >= 0

\* C2, reached: debits that returned successfully add up to more than the
\* account ever held, and the balance is still not negative.
Overdrawn ==
    \E a \in AccountNumbers :
        /\ debited[a] > InitBalance(a) + credited[a]
        /\ balance[a] >= 0

\* C3: deliveries of one incoming transactionId, overlapping or not, credit
\* the destination at most once in total.
CreditedOnce == \A id \in TxIds : creditedFor[id] <= 1

\* An incoming request carrying a stored transactionId proceeds to the
\* duplicate check.
ReachesDuplicateCheck(h, body) ==
    IncomingReceive(h, body) => handler'[h].pc = "findTx"

\* A handler at the duplicate check whose transactionId is stored answers
\* 200 with the stored status and writes nothing.
AnswersStored(h) ==
    LET r == handler[h] IN
    (/\ r.kind = "incoming" /\ r.pc = "findTx"
     /\ r.body.transactionId \in DOMAIN transactions
     /\ handler'[h] /= r)
    => /\ handler'[h] = Idle
       /\ response' = [status |-> 200, code |-> "ALREADY_PROCESSED",
                       txStatus |-> transactions[r.body.transactionId].status]
       /\ UNCHANGED <<balance, transactions>>

\* C4 as stated: once a record with transactionId T is stored, every later
\* incoming request carrying T is answered with the stored status and
\* changes no balance and no record.
EveryReplayAnswersStored ==
    [][\A h \in Handlers :
          /\ \A id \in DOMAIN transactions : \A body \in IncomingBodies(id) :
                ReachesDuplicateCheck(h, body)
          /\ AnswersStored(h)]_vars

\* C4: once a record with transactionId T is stored, every later incoming
\* request carrying T and addressed to this bank is answered with the
\* stored status; one addressed to another bank is refused before the
\* duplicate check; neither changes a balance or a record.
ReplayAnswersStored ==
    [][\A h \in Handlers :
          /\ \A id \in DOMAIN transactions : \A body \in IncomingBodies(id) :
                /\ body.toBank = BANK_PREFIX => ReachesDuplicateCheck(h, body)
                /\ IncomingReceive(h, body) => UNCHANGED <<balance, transactions>>
                /\ IncomingReceive(h, body) /\ body.toBank /= BANK_PREFIX
                       => response' = Response(400, "INVALID_DESTINATION")
          /\ AnswersStored(h)]_vars

\* C4, reached: a replay was answered with a stored status other than COMPLETED.
ReplayAnswered ==
    /\ response.code = "ALREADY_PROCESSED"
    /\ response.txStatus \in Statuses \ {"COMPLETED"}
    /\ \E id \in DOMAIN transactions : transactions[id].status = response.txStatus

\* The stored balance of the handler's sender after the step is the one
\* stored right before its debit was saved.
PreDebitRestored(h) == balance'[handler[h].body.fromAccount] = handler[h].preDebit

\* C5: when the relay answers with a rejection whose body is read and the
\* handler finishes by writing the record's final status, the sender's
\* stored balance is again what it was before the debit, and, the relay
\* having supplied an error code and message, the record is FAILED with
\* them and the caller gets the relay's status and code.  A rejection
\* without an error object, or a failing write of the FAILED status, throws
\* after the credit and lets the catch credit the sender again (see C8).
RejectionCompensated ==
    [][\A h \in Handlers :
          LET r == handler[h]
              t == transactions'[r.tx.transactionId]
          IN  (/\ r.kind = "external"
               /\ r.pc \in {"rejectTxSave", "catchTxSave"}
               /\ r.relayStatus /= 0 /\ ~responseOk(r.relayStatus)
               /\ r.errorData.parsed
               /\ handler'[h] = Idle
               /\ transactions' /= transactions)
              => /\ PreDebitRestored(h)
                 /\ r.errorData.hasError =>
                       /\ t.status = "FAILED"
                       /\ t.errorCode = r.errorData.code
                       /\ t.errorMessage = r.errorData.message
                       /\ response' = Response(r.relayStatus, r.errorData.code)]_vars

\* C6: when the dispatch fails at transport level and the catch runs to its
\* end, the sender has been credited back once, its stored balance is again
\* what it was before the debit, and the record is FAILED with
\* CENTRAL_BANK_ERROR.
TransportFailureCompensated ==
    [][\A h \in Handlers :
          ExternalCatchTxSave(h) /\ handler[h].relayStatus = 0 =>
              LET r == handler[h]
                  t == transactions'[r.tx.transactionId]
              IN  /\ PreDebitRestored(h)
                  /\ r.creditBacks = 1
                  /\ t.status = "FAILED"
                  /\ t.errorCode = "CENTRAL_BANK_ERROR"]_vars

\* C6, reached: a transfer whose dispatch failed is FAILED with
\* CENTRAL_BANK_ERROR and the sender holds the opening balance.
TransportFailureRecorded ==
    /\ Quiescent
    /\ response = Response(500, "INTERNAL_SERVER_ERROR")
    /\ \E id \in DOMAIN transactions :
          /\ transactions[id].status = "FAILED"
          /\ transactions[id].errorCode = "CENTRAL_BANK_ERROR"
          /\ debited[transactions[id].fromAccount] = transactions[id].amount
          /\ credited[transactions[id].fromAccount] = transactions[id].amount
          /\ balance[transactions[id].fromAccount] =
                 InitBalance(transactions[id].fromAccount)

\* C7: when the relay returns success, the record is COMPLETED when the
\* handler answers the caller.  The success branch answers 201 without
\* writing the record, which stays IN_PROGRESS.
SuccessCompleted ==
    [][\A h \in Handlers :
          (/\ handler[h].kind = "external" /\ handler[h].pc = "relay"
           /\ handler'[h] = Idle
           /\ response' = Response(201, "OK"))
          => transactions'[handler[h].tx.transactionId].status = "COMPLETED"]_vars

\* C8: an external handler that leaves a failure path, whether its writes
\* succeeded or threw, leaves the sender's stored balance at what it was
\* before the debit.  A throw after the rejection branch's credit enters the
\* catch, which credits the same copy again.
CompensatedOnce ==
    [][\A h \in Handlers :
          (/\ handler[h].kind = "external"
           /\ handler[h].pc \in {"rejectTxSave", "catchTxSave"}
           /\ handler'[h] = Idle)
          => PreDebitRestored(h)]_vars

\* C9: an incoming body one of whose fields differs from what its signature
\* was made over gets no further than the signature check.  verifySignature
\* never reads the payload, so such a body goes on to be credited.
TamperedRejected ==
    \A h \in Handlers :
        (/\ handler[h].kind = "incoming"
         /\ BodyPayload(handler[h].body) /= handler[h].body.signature.payload)
        => handler[h].pc \in {"findTx", "verify"}

\* C10: a payload signed by signTransaction and verified against this
\* bank's own prefix verifies, provided the key pair was not regenerated in
\* between.
RoundTrip ==
    sig.stage = "verified" /\ ~sig.keysChanged => sig.result

\* C10, reached: a round trip under the second key pair succeeded.
RoundTripDone ==
    /\ sig.stage = "verified" /\ ~sig.keysChanged /\ sig.result
    /\ sig.token = signTransaction(sig.payload, "k2")
    /\ publicKeyFile = "k2"

\* An incoming body that passes every check before the credit: addressed
\* to this bank, signed by a key of the bank it names, for a stored account
\* in that account's currency.
PassesIncomingChecks(b) ==
    /\ b.toBank = BANK_PREFIX
    /\ b.signature /= MalformedToken
    /\ b.signature.key = (IF b.fromBank = BANK_PREFIX THEN publicKeyFile ELSE OtherBankKey)
    /\ b.toAccount \in AccountNumbers
    /\ b.currency = AccountCurrency(b.toAccount)

\* C11: an incoming request that fails a check before the credit (other
\* destination bank, invalid signature, absent account, other currency)
\* never gets to the credit, and neither a request refused on receipt for
\* its destination nor a step of an incoming handler before the credit
\* changes a stored balance or a stored record.
RejectedIncomingNoTrace ==
    /\ [](\A h \in Handlers :
            handler[h].kind = "incoming" /\ handler[h].pc \in {"creditSave", "txSave"}
            => PassesIncomingChecks(handler[h].body))
    /\ [][\A h \in Handlers :
            /\ (/\ handler[h].kind = "incoming"
                /\ handler[h].pc \in {"findTx", "verify", "findRecipient"}
                /\ handler'[h] /= handler[h])
               => UNCHANGED <<balance, transactions>>
            /\ (/\ requests' /= requests
                /\ handler' = handler
                /\ response' = Response(400, "INVALID_DESTINATION"))
               => UNCHANGED <<balance, transactions>>]_vars

\* C11, reached: an incoming request was refused for its signature, and the
\* store is as it was at the start.
IncomingRefused ==
    /\ Quiescent
    /\ response = Response(400, "INVALID_SIGNATURE")
    /\ transactions = <<>>
    /\ \A a \in AccountNumbers : balance[a] = InitBalance(a)

\* A stored record created by POST /incoming: not internal, addressed to
\* this bank.
IsIncomingRecord(t) == ~t.isInternal /\ t.toBank = BANK_PREFIX

\* C12: whenever no handler is in flight, a destination has been credited
\* for transactionId T exactly when a COMPLETED incoming record with T is
\* stored.  The credit is saved before the record: a record save that
\* throws (amount above the schema's maximum, a failing write) answers 500
\* and leaves the credit in place.
IncomingUnit ==
    Quiescent =>
        \A id \in TxIds :
            creditedFor[id] > 0 <=>
                /\ id \in DOMAIN transactions
                /\ IsIncomingRecord(transactions[id])
                /\ transactions[id].status = "COMPLETED"

\* C13: an internal transfer of amount a between two different accounts
\* that answers 201 leaves the sender's stored balance a below and the
\* recipient's a above what they were when the handler read them, and adds
\* exactly one record, COMPLETED, leaving the other records as they were
\* (requests handled one at a time).
InternalTransferMoves ==
    [][\A h \in Handlers :
          LET r == handler[h]
              b == r.body
          IN  (/\ r.kind = "internal"
               /\ b.fromAccount /= b.toAccount
               /\ handler'[h] = Idle
               /\ response' = Response(201, "OK"))
              => /\ balance'[b.fromAccount] = r.senderLoaded - b.amount
                 /\ balance'[b.toAccount] = r.recipientLoaded + b.amount
                 /\ r.n \notin DOMAIN transactions
                 /\ DOMAIN transactions' = DOMAIN transactions \cup {r.n}
                 /\ transactions'[r.n].status = "COMPLETED"
                 /\ transactions'[r.n].amount = b.amount
                 /\ \A id \in DOMAIN transactions : transactions'[id] = transactions[id]]_vars

\* C13, reached: 2 moved from OVE-1 (2) to OVE-2 (0) gives 0 and 2 and one
\* COMPLETED internal record.
InternalTransferDone ==
    /\ Quiescent
    /\ response = Response(201, "OK")
    /\ balance["OVE-1"] = 0 /\ balance["OVE-2"] = 2
    /\ DOMAIN transactions = {1}
    /\ transactions[1].isInternal /\ transactions[1].status = "COMPLETED"
    /\ transactions[1].amount = 2

\* C14: an internal transfer whose recipient credit or record write fails
\* after the sender's debit was saved leaves the sender's stored balance at
\* what it was before the debit, the recipient's as it was read, and no
\* record.  The three writes are separate save() calls with no rollback:
\* the catch only passes the error on.
InternalAllOrNothing ==
    [][\A h \in Handlers :
          LET r == handler[h]
              b == r.body
          IN  (/\ r.kind = "internal"
               /\ r.pc \in {"creditSave", "txSave"}
               /\ handler'[h] = Idle
               /\ response'.status = 500)
              => /\ balance'[b.fromAccount] = r.preDebit
                 /\ balance'[b.toAccount] = r.recipientLoaded
                 /\ r.n \notin DOMAIN transactions']_vars

\* An outgoing request that passes validation: the sender is stored, owned
\* by the requester and held enough when it was read; an internal
\* recipient is stored; an external request names another bank and the
\* sender's currency.
PassesOutgoingChecks(r) ==
    /\ r.body.fromAccount \in AccountNumbers
    /\ AccountUser(r.body.fromAccount) = r.user
    /\ r.senderLoaded >= r.body.amount
    /\ r.kind = "internal" =>
          /\ r.body.toAccount \in AccountNumbers
          /\ AccountCurrency(r.body.fromAccount) = AccountCurrency(r.body.toAccount)
    /\ r.kind = "external" =>
          /\ r.body.toBank /= BANK_PREFIX
          /\ r.body.currency = AccountCurrency(r.body.fromAccount)

\* The steps of an outgoing handler that come before its first write.
InValidation(r) ==
    \/ r.kind = "internal" /\ r.pc \in {"findSender", "findRecipient"}
    \/ r.kind = "external" /\ r.pc = "findSender"

\* C15: an internal or external request that fails validation never gets
\* to a write (so no account is debited for a requester who does not own
\* it), and neither the receipt of a request nor a step of the validation
\* changes a stored balance or record.
InvalidOutgoingNoTrace ==
    /\ [](\A h \in Handlers :
            handler[h].kind \in {"internal", "external"} /\ ~InValidation(handler[h])
            => PassesOutgoingChecks(handler[h]))
    /\ [][\A h \in Handlers :
            /\ InValidation(handler[h]) /\ handler'[h] /= handler[h]
               => UNCHANGED <<balance, transactions>>
            /\ requests' /= requests => UNCHANGED <<balance, transactions>>]_vars

\* C15, reached: a request by a user who does not own the sender was
\* refused, and the store is as it was at the start.
OutgoingRefused ==
    /\ Quiescent
    /\ response = Response(403, "FORBIDDEN")
    /\ transactions = <<>>
    /\ \A a \in AccountNumbers : balance[a] = InitBalance(a)

\* C16: no step of a handler whose request carries an amount below the
\* minimum or above the maximum changes a stored balance or record.
\* POST /internal and POST /external refuse such a request on receipt;
\* POST /incoming has no amount validator and credits an amount above the
\* maximum before the record's own validator refuses it.
OutOfRangeNoTrace ==
    [][\A h \in Handlers :
          (/\ handler[h].kind /= "none"
           /\ ~amountValid(handler[h].body.amount)
           /\ handler'[h] /= handler[h])
          => UNCHANGED <<balance, transactions>>]_vars

\* The status changes a stored record may go through.
StatusSteps(t) ==
    IF t.isInternal
    THEN {<<"PENDING", "COMPLETED">>, <<"PENDING", "FAILED">>}
    ELSE {<<"PENDING", "IN_PROGRESS">>, <<"IN_PROGRESS", "COMPLETED">>,
          <<"IN_PROGRESS", "FAILED">>}

\* C17: a stored record is never removed, every change of its stored
\* status is PENDING -> IN_PROGRESS -> {COMPLETED, FAILED} (external) or
\* PENDING -> {COMPLETED, FAILED} (internal), and a record stored as
\* COMPLETED or FAILED is never written again.
StatusMonotonic ==
    [][\A id \in DOMAIN transactions :
          /\ id \in DOMAIN transactions'
          /\ transactions'[id].status /= transactions[id].status
             => <<transactions[id].status, transactions'[id].status>>
                    \in StatusSteps(transactions[id])
          /\ transactions[id].status \in {"COMPLETED", "FAILED"}
             => transactions'[id] = transactions[id]]_vars

\* C17, reached: an external record went from PENDING through IN_PROGRESS
\* to FAILED.
ExternalFailedStored ==
    \E id \in DOMAIN transactions :
        /\ ~transactions[id].isInternal
        /\ transactions[id].toBank /= BANK_PREFIX
        /\ transactions[id].status = "FAILED"

\* C18: in every reachable state at most one record was ever inserted
\* under a transactionId, and every stored record is the one inserted under
\* its id and still carries that id.
UniqueTransactionId ==
    \A id \in TxIds :
        /\ inserted[id] <= 1
        /\ id \in DOMAIN transactions
           => inserted[id] = 1 /\ transactions[id].transactionId = id

\* C18, reached: a locally generated id and a relay-supplied id are both
\* stored, each inserted once.
BothIdsStored ==
    /\ 1 \in DOMAIN transactions
    /\ 100 \in DOMAIN transactions
    /\ transactions[1].fromBank = BANK_PREFIX
    /\ transactions[100].fromBank = OtherBank
    /\ inserted[100] = 1

\* C19: every stored record created by POST /incoming is COMPLETED, from
\* the state in which it is first stored on.
IncomingStoredCompleted ==
    \A id \in DOMAIN transactions :
        IsIncomingRecord(transactions[id]) => transactions[id].status = "COMPLETED"

\* C19, reached: an incoming record is stored, and its destination was
\* credited for it.
IncomingStored ==
    \E id \in DOMAIN transactions :
        /\ IsIncomingRecord(transactions[id])
        /\ transactions[id].fromBank = OtherBank
        /\ creditedFor[id] = 1
        /\ balance[transactions[id].toAccount] =
               InitBalance(transactions[id].toAccount) + transactions[id].amount

\* A stored record created by POST /external.
IsOutgoingRecord(t) == ~t.isInternal /\ t.fromBank = BANK_PREFIX /\ t.toBank /= BANK_PREFIX

\* C20: of the outgoing transfers requested within one window (a run is
\* short enough to fall within one) no more than RateLimit get as far as
\* a stored record, a debit or a dispatch.  No handler and no middleware
\* of the router counts requests, so every valid request is taken up.
OutgoingRateLimited ==
    Cardinality({id \in DOMAIN transactions : IsOutgoingRecord(transactions[id])})
        <= RateLimit


\* The key a call of verifySignature checks the signature against.
SelectedKey(c) == IF c.fromBank = BANK_PREFIX THEN publicKeyFile ELSE c.lookup.key

\* C21: every call of verifySignature returns true or false to its caller
\* and never an error, and it returns false when the local key file is
\* missing, when the key directory's lookup fails or answers non-OK, when
\* the key is malformed or absent, when the signature is no token and when
\* the signature was made with another key; the handlers' verifySignature
\* is true exactly when the call returns true.
VerifyFailsClosed ==
    call.fn = "verifySignature" /\ CallOver =>
        /\ call.stage = "returned"
        /\ call.outcome \in {"true", "false"}
        /\ call.fromBank = BANK_PREFIX /\ publicKeyFile = NoKey => call.outcome = "false"
        /\ call.fromBank /= BANK_PREFIX /\ (~call.lookup.fetched \/ ~call.lookup.ok)
              => call.outcome = "false"
        /\ SelectedKey(call) \in {MalformedKey, NoKey} => call.outcome = "false"
        /\ call.signature = MalformedToken => call.outcome = "false"
        /\ call.signature.key /= SelectedKey(call) => call.outcome = "false"
        /\ call.outcome = "true" <=>
              verifySignature(NoPayload, call.signature, call.fromBank, publicKeyFile,
                              lookupKey(call.lookup))

\* C21, reached: a well-formed token of this bank was checked with the
\* local key file missing, and the call returned false.
VerifyMissingKeyFile ==
    /\ call.fn = "verifySignature" /\ call.stage = "returned"
    /\ call.fromBank = BANK_PREFIX
    /\ publicKeyFile = NoKey
    /\ call.signature.key = "k1"
    /\ call.outcome = "false"


\* The public key of the bank an incoming body names as its origin: the
\* local key file for this bank, the key directory's key for the other.
OriginKey(b) == IF b.fromBank = BANK_PREFIX THEN publicKeyFile ELSE OtherBankKey

\* C22: an incoming transfer gets past the signature check only with a
\* token signed by the key of the bank it names as its origin (the local
\* key for this bank's prefix, the directory's key otherwise), and a
\* transfer signed with any other key is answered 400 INVALID_SIGNATURE
\* with no balance and no record changed.
OriginKeyChecked ==
    /\ [](\A h \in Handlers :
            (/\ handler[h].kind = "incoming"
             /\ handler[h].pc \in {"findRecipient", "creditSave", "txSave"})
            => /\ handler[h].body.signature /= MalformedToken
               /\ handler[h].body.signature.key = OriginKey(handler[h].body))
    /\ [][\A h \in Handlers :
            (/\ handler[h].kind = "incoming" /\ handler[h].pc = "verify"
             /\ handler[h].body.signature.key /= OriginKey(handler[h].body)
             /\ handler'[h] /= handler[h])
            => /\ handler'[h] = Idle
               /\ response' = Response(400, "INVALID_SIGNATURE")
               /\ UNCHANGED <<balance, transactions>>]_vars

\* C22, reached: a transfer naming this bank as its origin and signed with
\* this bank's key was accepted and credited.
OwnOriginAccepted ==
    \E id \in DOMAIN transactions :
        /\ IsIncomingRecord(transactions[id])
        /\ transactions[id].fromBank = BANK_PREFIX
        /\ transactions[id].signature.key = publicKeyFile
        /\ creditedFor[id] = 1


\* C23: a transaction is dispatched to the relay at most once: no dispatch
\* resolves twice for one transactionId, a handler whose dispatch resolved
\* never waits for the relay again, and a record stored as FAILED is
\* neither dispatched nor written again.
DispatchedOnce ==
    /\ [](\A id \in TxIds : dispatched[id] <= 1)
    /\ [][/\ \A h \in Handlers :
               handler[h].kind = "external" /\ handler[h].pc /= "debitSave"
               => handler'[h].pc /= "relay" \/ handler'[h] = handler[h]
          /\ \A id \in DOMAIN transactions :
               transactions[id].status = "FAILED"
               => /\ transactions'[id] = transactions[id]
                  /\ dispatched'[id] = dispatched[id]]_vars

\* C23, reached: a transfer dispatched once is FAILED, and stays so while
\* a later request has been received and answered.
FailedAfterOneDispatch ==
    /\ Quiescent
    /\ \E id \in DOMAIN transactions :
          /\ IsOutgoingRecord(transactions[id])
          /\ transactions[id].status = "FAILED"
          /\ dispatched[id] = 1
          /\ requests > id


\* C24: debit called with amount <= 0 throws the amount error, whatever the
\* balance; called with a positive amount above the balance it throws the
\* funds error; a debit that threw changed neither the copy nor the stored
\* balance; otherwise the copy and then the stored balance become the
\* balance less the amount.  The handlers' debitThrows is true exactly
\* when debit throws one of the two errors.
DebitContract ==
    call.fn = "debit" =>
        /\ call.amount <= 0 =>
              call.stage = "thrown" /\ call.outcome = "Debit amount must be positive"
        /\ call.amount > 0 /\ call.loaded < call.amount =>
              call.stage = "thrown" /\ call.outcome = "Insufficient funds"
        /\ call.stage = "thrown" =>
              call.copy = call.loaded /\ balance[call.account] = call.loaded
        /\ call.amount > 0 /\ call.loaded >= call.amount =>
              /\ call.stage \in {"saving", "returned"}
              /\ call.copy = call.loaded - call.amount
        /\ call.stage = "saving" => balance[call.account] = call.loaded
        /\ call.stage = "returned" => balance[call.account] = call.loaded - call.amount
        /\ call.stage = "thrown" <=> debitThrows(call.loaded, call.amount)

\* C24, reached: a debit of 2 from a balance of 1 threw the funds error and
\* the stored balance is still 1.
DebitRefused ==
    /\ call.fn = "debit" /\ call.stage = "thrown"
    /\ call.outcome = "Insufficient funds"
    /\ call.loaded = 1 /\ call.amount = 2
    /\ balance[call.account] = 1


\* C25: whenever the record of an external transfer in flight is stored as
\* IN_PROGRESS, its handler has already saved the sender's debit.  The
\* handler awaits markInProgress before it calls debit, so the record is
\* IN_PROGRESS while the debit is still to be saved.
DebitBeforeInProgress ==
    \A h \in Handlers :
        (/\ handler[h].kind = "external"
         /\ handler[h].tx.transactionId \in DOMAIN transactions
         /\ transactions[handler[h].tx.transactionId].status = "IN_PROGRESS")
        => handler[h].pc \notin {"inProgressSave", "debitSave"}


\* The sender's debit of handler record r is stored and the record is
\* stored as IN_PROGRESS with the token made over its payload.
ReadyForDispatch(r) ==
    LET id == r.tx.transactionId
        b == r.body
    IN  /\ id \in DOMAIN transactions
        /\ transactions[id].status = "IN_PROGRESS"
        /\ transactions[id].signature =
               signTransaction(Payload(id, BANK_PREFIX, b.fromAccount, b.toBank,
                                       b.toAccount, b.amount, b.currency),
                               privateKeyFile)
        /\ transactions[id].signature /= MalformedToken
        /\ debited[b.fromAccount] >= b.amount

\* C26: while an external handler waits for the relay, the sender's debit
\* is stored (with requests handled one at a time, the stored balance is
\* the one read less the amount), the record is stored as IN_PROGRESS with
\* its signature, and the dispatch has not resolved; a handler on a
\* compensation path has had its dispatch resolve, and only such a handler
\* credits the sender back.
DispatchOrdered ==
    /\ [](\A h \in Handlers :
            LET r == handler[h] IN
            /\ (r.kind = "external" /\ r.pc = "relay")
               => /\ ReadyForDispatch(r)
                  /\ balance[r.body.fromAccount] = r.senderLoaded - r.body.amount
                  /\ dispatched[r.tx.transactionId] = 0
            /\ (/\ r.kind = "external"
                /\ r.pc \in {"rejectCreditSave", "rejectTxSave", "catchCreditSave",
                             "catchTxSave"})
               => dispatched[r.tx.transactionId] = 1)
    /\ [][\A h \in Handlers :
            (/\ handler[h].kind = "external"
             /\ handler'[h] /= handler[h]
             /\ credited' /= credited)
            => dispatched[handler[h].tx.transactionId] = 1]_vars

\* C26, reached: the relay has rejected a transfer that was dispatched with
\* its debit stored and its record IN_PROGRESS and signed, and the credit
\* back is still to be saved.
CompensationPending ==
    \E h \in Handlers :
        /\ handler[h].kind = "external" /\ handler[h].pc = "rejectCreditSave"
        /\ ReadyForDispatch(handler[h])
        /\ dispatched[handler[h].tx.transactionId] = 1
        /\ credited[handler[h].body.fromAccount] = 0
        /\ balance[handler[h].body.fromAccount] =
               handler[h].senderLoaded - handler[h].body.amount


\* C27: the credit-back of an external handler whose copy was debited once
\* and credited once raises the sender's stored balance by the amount,
\* whatever other handlers stored on that account since the debit.  credit
\* runs on the copy loaded before the debit and save() stores the copy's
\* balance, so what others stored in between is overwritten.
CompensationKeepsChanges ==
    [][\A h \in Handlers :
          LET r == handler[h] IN
          (/\ r.kind = "external"
           /\ r.pc \in {"rejectCreditSave", "catchCreditSave"}
           /\ r.creditBacks = 0
           /\ r.senderBalance = r.senderLoaded
           /\ handler'[h] /= r
           /\ credited' /= credited)
          => balance'[r.body.fromAccount] = balance[r.body.fromAccount] + r.body.amount]_vars


\* The sum of the stored balances bal over the accounts of set S.
RECURSIVE SumOver(_, _)
SumOver(bal, S) ==
    IF S = {} THEN 0
    ELSE LET a == CHOOSE x \in S : TRUE IN bal[a] + SumOver(bal, S \ {a})

\* C28: when an internal transfer answers 201, the sum of the stored
\* balances is what it was when the handler read its two accounts
\* (requests handled one at a time), for every accepted pair of account
\* numbers.  With fromAccount = toAccount the handler loads the account
\* twice, saves the debit from one copy and then the credit from the
\* other, which was read before the debit: the balance ends one amount
\* above where it started.
InternalConserves ==
    [][\A h \in Handlers :
          LET r == handler[h]
              b == r.body
          IN  (/\ r.kind = "internal"
               /\ handler'[h] = Idle
               /\ response' = Response(201, "OK"))
              => SumOver(balance', AccountNumbers) =
                     SumOver([balance EXCEPT ![b.fromAccount] = r.senderLoaded,
                                             ![b.toAccount] = r.recipientLoaded],
                             AccountNumbers)]_vars


\* C29: no step of an external handler to whose dispatch the relay has
\* answered with a success status credits the sender or stores the record
\* as FAILED.  The acknowledgment is read inside the try around the
\* dispatch: when response.json() throws on a 2xx answer, the catch
\* credits the sender back and marks the record FAILED.
AcceptedNotReversed ==
    [][\A h \in Handlers :
          LET r == handler[h] IN
          (/\ r.kind = "external"
           /\ responseOk(r.relayStatus)
           /\ handler'[h] /= r)
          => /\ balance'[r.body.fromAccount] = balance[r.body.fromAccount]
             /\ credited'[r.body.fromAccount] = credited[r.body.fromAccount]
             /\ transactions'[r.tx.transactionId].status /= "FAILED"]_vars


\* C30: when an external handler that stored a record returns, the record
\* is stored as COMPLETED or FAILED, and as FAILED only with the sender's
\* stored balance no lower than before the debit (requests handled one at
\* a time).  The success branch never writes COMPLETED, and the outer catch
\* only passes the error on: a failure of the IN_PROGRESS write, of the
\* debit or of a compensation write leaves the record PENDING or
\* IN_PROGRESS.
NoRecordLeftOpen ==
    [][\A h \in Handlers :
          LET r == handler[h]
              id == r.tx.transactionId
          IN  (/\ r.kind = "external"
               /\ handler'[h] = Idle
               /\ id \in DOMAIN transactions')
              => /\ transactions'[id].status \in {"COMPLETED", "FAILED"}
                 /\ transactions'[id].status = "FAILED"
                    => balance'[r.body.fromAccount] >= r.preDebit]_vars

=============================================================================
